---- MODULE Spec2Model ----
(***************************************************************************)
(* Model of src/src/transaction.rs: Transaction<'a, Client>, an            *)
(* interactive transaction over a borrowed DatabaseClient.                 *)
(*                                                                         *)
(* Every async fn is modelled in the three steps a Rust future goes        *)
(* through: the call creates the future (taking its arguments, so          *)
(* commit(self)/rollback(self) move the handle and execute(&self) borrows  *)
(* it), the first poll runs the body up to the client call (the client     *)
(* receives the call), and the completion of the client call resumes the   *)
(* body, which returns.  A future that is not yet finished may be dropped  *)
(* (cancellation, timeout).                                                *)
(***************************************************************************)
EXTENDS Naturals, Sequences, FiniteSets

\* Bound: the number of operation calls (new/execute/commit/rollback) in a run.
MaxCalls == 3

\* Bound: the number of those calls that are calls of new.
MaxNew == 2

\* The client instances a caller may hand to new.
Clients == {"c1", "c2"}

\* What the client collaborator answers a call with: success or failure, and
\* an opaque value (a result set, an error).  Every answer carries a value of
\* its own, named by the call it answers, so that a value altered, dropped or
\* handed to another call shows.
Outcomes == {"ok", "err"}
Answer(kind, i) == [kind |-> kind, val |-> <<i>>]

\* The two argument forms execute accepts through impl Into<Statement>:
\* plain text, and a Statement built with arguments.
Text(sql) == [form |-> "text", sql |-> sql, args |-> <<>>]
WithArgs(sql, args) == [form |-> "stmt", sql |-> sql, args |-> args]

\* Arguments the caller passes to execute in the model.  The doc example's
\* insert, and two plain-text statements that happen to be transaction control.
Inputs ==
    { WithArgs("INSERT", <<"John">>),
      Text("COMMIT"),
      Text("BEGIN") }

\* Statement::new(text): a statement with no arguments.
StatementNew(sql) == [sql |-> sql, args |-> <<>>]

\* stmt.into(): text becomes a statement without arguments, a Statement is
\* passed as it is.
Into(x) == IF x.form = "text" THEN StatementNew(x.sql)
           ELSE [sql |-> x.sql, args |-> x.args]

NoValue == [kind |-> "none", val |-> <<>>]
\* Ok(()) and Ok(Self { client }): a success that carries no client value.
OkUnit == [kind |-> "ok", val |-> <<>>]

VARIABLES
    calls,   \* the operation calls made so far, in the order they were issued
    log,     \* the calls the clients received, in the order they received them
    tx       \* per handle (named by the call of new that makes it): state, client

vars == <<calls, log, tx>>

CallIds == 1..MaxCalls

Live(i) == calls[i].stage \in {"created", "inflight"}

\* An execute future holds &self for as long as it lives.
Borrowed(h) ==
    \E i \in 1..Len(calls) :
        calls[i].op = "execute" /\ calls[i].h = h /\ Live(i)

\* Calls on handle h that are not finished yet.
Pending(h) == {i \in 1..Len(calls) : calls[i].h = h /\ Live(i)}

\* The log entry of call i's client call that is waiting for its answer.
EntryOf(i) ==
    CHOOSE k \in 1..Len(log) : log[k].call = i /\ log[k].resp = NoValue

Init ==
    /\ calls = <<>>
    /\ log = <<>>
    /\ tx = [h \in CallIds |-> [state |-> "none", client |-> "-"]]

\* A call as the caller issues it: the future is created, nothing has run.
\* alone records whether every earlier call on the same handle had finished.
NewFuture(op, c, h, x) ==
    [op |-> op, client |-> c, h |-> h, stmt |-> x, stage |-> "created",
     ret |-> NoValue, alone |-> (Pending(h) = {})]

\* The client receives a call: method, statements, and the call it belongs to.
Request(c, method, stmts, i) ==
    [client |-> c, method |-> method, stmts |-> stmts, call |-> i,
     resp |-> NoValue]

\* The await on the client call of call i finishes with r.
Answered(i, r) == [log EXCEPT ![EntryOf(i)].resp = r]

Finished(i, ret) == [calls EXCEPT ![i].stage = "done", ![i].ret = ret]

----------------------------------------------------------------------------
\* Transaction::new(client)

\* Mutant: BEGIN goes through the single-statement execute.
NewRequestExecute(i) ==
    <<Request(calls[i].client, "execute", <<StatementNew("BEGIN")>>, i)>>

\* client.raw_batch(vec![Statement::new("BEGIN")])
NewRequest(i) ==
    <<Request(calls[i].client, "raw_batch", <<StatementNew("BEGIN")>>, i)>>

\* `?` returns the client's error; otherwise Ok(Self { client }).
NewReturn(r) == IF r.kind = "err" THEN r ELSE OkUnit

\* Mutant: the error of raw_batch is ignored and the handle is made anyway.
NewHandleAlways(i, r) ==
    [tx EXCEPT ![i] = [state |-> "Open", client |-> calls[i].client]]

\* The handle exists only when raw_batch succeeded.
NewHandle(i, r) ==
    IF r.kind = "err" THEN tx
    ELSE [tx EXCEPT ![i] = [state |-> "Open", client |-> calls[i].client]]

\* Mutant: the handle takes the client over, which is gone with the handle.
NewCallClientConsumed(c) ==
    /\ Len(calls) < MaxCalls
    /\ Cardinality({i \in 1..Len(calls) : calls[i].op = "new"}) < MaxNew
    /\ \A h \in CallIds : tx[h].client # c
    /\ calls' = Append(calls, NewFuture("new", c, Len(calls) + 1, Text("-")))
    /\ UNCHANGED <<log, tx>>

NewCall(c) ==
    /\ Len(calls) < MaxCalls
    /\ Cardinality({i \in 1..Len(calls) : calls[i].op = "new"}) < MaxNew
    /\ calls' = Append(calls, NewFuture("new", c, Len(calls) + 1, Text("-")))
    /\ UNCHANGED <<log, tx>>

NewPoll(i) ==
    /\ calls[i].op = "new" /\ calls[i].stage = "created"
    /\ log' = log \o NewRequest(i)
    /\ calls' = [calls EXCEPT ![i].stage = "inflight"]
    /\ UNCHANGED tx

NewDone(i, r) ==
    /\ calls[i].op = "new" /\ calls[i].stage = "inflight"
    /\ log' = Answered(i, r)
    /\ calls' = Finished(i, NewReturn(r))
    /\ tx' = NewHandle(i, r)

----------------------------------------------------------------------------
\* Transaction::execute(&self, stmt)

\* Mutant: the statement is sent twice.
ExecuteRequestTwice(i) ==
    LET e == Request(tx[calls[i].h].client, "execute", <<Into(calls[i].stmt)>>, i)
    IN  <<e, e>>

\* self.client.execute(stmt.into())
ExecuteRequest(i) ==
    <<Request(tx[calls[i].h].client, "execute", <<Into(calls[i].stmt)>>, i)>>

\* Mutant: the result set is dropped, as commit and rollback do.
ExecuteReturnUnit(r) == IF r.kind = "err" THEN r ELSE OkUnit

\* The client's result is the function's result.
ExecuteReturn(r) == r

\* Mutant: a failed statement resolves the transaction by itself.
ExecuteHandleAutoResolve(h, r) ==
    IF r.kind = "err" THEN [tx EXCEPT ![h].state = "Resolved"] ELSE tx

\* execute only reads the handle.
ExecuteHandle(h, r) == tx

ExecuteCall(h, x) ==
    /\ Len(calls) < MaxCalls
    /\ tx[h].state = "Open"
    /\ calls' = Append(calls, NewFuture("execute", tx[h].client, h, x))
    /\ UNCHANGED <<log, tx>>

\* Mutant: the handle lets one statement at a time through to the client.
ExecutePollLocked(i) ==
    /\ calls[i].op = "execute" /\ calls[i].stage = "created"
    /\ \A j \in 1..Len(calls) :
           (calls[j].op = "execute" /\ calls[j].h = calls[i].h) =>
               calls[j].stage # "inflight"
    /\ log' = log \o ExecuteRequest(i)
    /\ calls' = [calls EXCEPT ![i].stage = "inflight"]
    /\ UNCHANGED tx

ExecutePoll(i) ==
    /\ calls[i].op = "execute" /\ calls[i].stage = "created"
    /\ log' = log \o ExecuteRequest(i)
    /\ calls' = [calls EXCEPT ![i].stage = "inflight"]
    /\ UNCHANGED tx

ExecuteDone(i, r) ==
    /\ calls[i].op = "execute" /\ calls[i].stage = "inflight"
    /\ log' = Answered(i, r)
    /\ calls' = Finished(i, ExecuteReturn(r))
    /\ tx' = ExecuteHandle(calls[i].h, r)

----------------------------------------------------------------------------
\* Transaction::commit(self) and Transaction::rollback(self)

\* self.client.execute("COMMIT") / self.client.execute("ROLLBACK")
ResolveText(op) == IF op = "commit" THEN "COMMIT" ELSE "ROLLBACK"

\* Mutant: the statement goes to some other client than the handle's.
ResolveRequestElsewhere(i) ==
    <<Request(CHOOSE c \in Clients : c # tx[calls[i].h].client, "execute",
              <<Into(Text(ResolveText(calls[i].op)))>>, i)>>

\* Mutant: the resolving statement is sent a second time.
ResolveRequestTwice(i) ==
    LET e == Request(tx[calls[i].h].client, "execute",
                     <<Into(Text(ResolveText(calls[i].op)))>>, i)
    IN  <<e, e>>

ResolveRequest(i) ==
    <<Request(tx[calls[i].h].client, "execute",
              <<Into(Text(ResolveText(calls[i].op)))>>, i)>>

\* Mutant: the client's error is swallowed.
ResolveReturnSwallow(r) == OkUnit

\* `?` returns the client's error; otherwise Ok(()), the result set is dropped.
ResolveReturn(r) == IF r.kind = "err" THEN r ELSE OkUnit

\* Mutant: commit(&self), the handle stays with the caller.
NotConsumed(h) == tx

\* self is taken by value: the call moves the handle into the future.
Consumed(h) == [tx EXCEPT ![h].state = "Resolved"]

\* Mutant: a failed commit or rollback hands the handle back for a retry.
ResolveHandleRetry(h, r) ==
    IF r.kind = "err" THEN [tx EXCEPT ![h].state = "Open"] ELSE tx

\* Nothing gives the handle back when the future finishes, whatever the result.
ResolveHandle(h, r) == tx

\* Mutant: the handle can be resolved while an execute still borrows it.
ResolveCallWhileBorrowed(h, op) ==
    /\ Len(calls) < MaxCalls
    /\ tx[h].state = "Open"
    /\ calls' = Append(calls, NewFuture(op, tx[h].client, h, Text("-")))
    /\ tx' = Consumed(h)
    /\ UNCHANGED log

ResolveCall(h, op) ==
    /\ Len(calls) < MaxCalls
    /\ tx[h].state = "Open"
    /\ ~Borrowed(h)
    /\ calls' = Append(calls, NewFuture(op, tx[h].client, h, Text("-")))
    /\ tx' = Consumed(h)
    /\ UNCHANGED log

ResolvePoll(i) ==
    /\ calls[i].op \in {"commit", "rollback"} /\ calls[i].stage = "created"
    /\ log' = log \o ResolveRequest(i)
    /\ calls' = [calls EXCEPT ![i].stage = "inflight"]
    /\ UNCHANGED tx

ResolveDone(i, r) ==
    /\ calls[i].op \in {"commit", "rollback"} /\ calls[i].stage = "inflight"
    /\ log' = Answered(i, r)
    /\ calls' = Finished(i, ResolveReturn(r))
    /\ tx' = ResolveHandle(calls[i].h, r)

----------------------------------------------------------------------------
\* Dropping things

\* Mutant: a commit or rollback that did not finish leaves the handle Open.
CancelHandleRestore(i) ==
    IF calls[i].op \in {"commit", "rollback"}
    THEN [tx EXCEPT ![calls[i].h].state = "Open"] ELSE tx

\* Dropping a future drops what it owns: for commit/rollback that is the handle
\* itself, for execute the borrow, for new the client reference.
CancelHandle(i) == tx

\* A future that has not finished is dropped (cancellation, timeout).
Cancel(i) ==
    /\ Live(i)
    /\ calls' = [calls EXCEPT ![i].stage = "cancelled"]
    /\ tx' = CancelHandle(i)
    /\ UNCHANGED log

\* Mutant: a Drop impl that rolls the transaction back on discard.
DropRequestRollback(h) ==
    <<Request(tx[h].client, "execute", <<Into(Text("ROLLBACK"))>>, h)>>

\* Transaction has no Drop impl: discarding the handle runs no code.
DropRequest(h) == <<>>

Drop(h) ==
    /\ tx[h].state = "Open"
    /\ ~Borrowed(h)
    /\ tx' = [tx EXCEPT ![h].state = "Dropped"]
    /\ log' = log \o DropRequest(h)
    /\ UNCHANGED calls

----------------------------------------------------------------------------
Next ==
    \/ \E c \in Clients : NewCall(c)
    \/ \E i \in 1..Len(calls) : NewPoll(i)
    \/ \E i \in 1..Len(calls), k \in Outcomes : NewDone(i, Answer(k, i))
    \/ \E h \in CallIds, x \in Inputs : ExecuteCall(h, x)
    \/ \E i \in 1..Len(calls) : ExecutePoll(i)
    \/ \E i \in 1..Len(calls), k \in Outcomes : ExecuteDone(i, Answer(k, i))
    \/ \E h \in CallIds, op \in {"commit", "rollback"} : ResolveCall(h, op)
    \/ \E i \in 1..Len(calls) : ResolvePoll(i)
    \/ \E i \in 1..Len(calls), k \in Outcomes : ResolveDone(i, Answer(k, i))
    \/ \E i \in 1..Len(calls) : Cancel(i)
    \/ \E h \in CallIds : Drop(h)

Spec == Init /\ [][Next]_vars

----------------------------------------------------------------------------
\* Vocabulary of the properties

Ids == 1..Len(calls)
Resolving == {"commit", "rollback"}

\* The calls with an operation in ops made on handle h.
CallsOn(h, ops) == {i \in Ids : calls[i].h = h /\ calls[i].op \in ops}

\* The same, as a sequence in the order the caller issued them.
Issued(h, ops) ==
    SelectSeq([k \in Ids |-> k],
              LAMBDA i : calls[i].h = h /\ calls[i].op \in ops)

\* What the clients received on behalf of handle h from operations in ops.
HandleLog(h, ops) ==
    SelectSeq(log, LAMBDA e : calls[e.call].h = h /\ calls[e.call].op \in ops)

AllOps == {"new", "execute", "commit", "rollback"}

EntriesOf(i) == {k \in 1..Len(log) : log[k].call = i}

IsBegin(e) ==
    e.method = "raw_batch" /\ e.stmts = <<[sql |-> "BEGIN", args |-> <<>>]>>

IsExecuteOf(e, sql) ==
    e.method = "execute" /\ e.stmts = <<[sql |-> sql, args |-> <<>>]>>

\* The client was sent the text COMMIT or ROLLBACK through execute.
IsResolvingText(e) ==
    e.method = "execute" /\ e.stmts[1].sql \in {"COMMIT", "ROLLBACK"}

\* The handle of call i of new exists (it may since have been consumed).
Made(h) == h \in Ids /\ calls[h].op = "new" /\ tx[h].state # "none"

\* Every execute on h was issued when the calls before it on h had finished,
\* and was awaited to its end or is the one being awaited now.
Sequential(h) ==
    \A i \in CallsOn(h, {"execute"}) :
        calls[i].alone /\ calls[i].stage # "cancelled"

----------------------------------------------------------------------------
\* C1: for a handle used sequentially (each execute awaited before the next
\* call), the client received exactly one raw_batch([BEGIN]) first and then
\* the executed statements, each once, in the order the caller issued them.
C1_OrderPreserved ==
    \A h \in Ids :
        (Made(h) /\ Sequential(h)) =>
            LET L == HandleLog(h, {"new", "execute"})
                P == SelectSeq(Issued(h, {"execute"}),
                               LAMBDA i : calls[i].stage # "created")
            IN  /\ Len(L) = 1 + Len(P)
                /\ IsBegin(L[1]) /\ L[1].call = h
                /\ \A k \in 1..Len(P) :
                       /\ L[k + 1].call = P[k]
                       /\ L[k + 1].method = "execute"
                       /\ L[k + 1].stmts = <<Into(calls[P[k]].stmt)>>

\* Two different statements were executed one after the other and both finished.
C1_Witness ==
    \E h \in Ids :
        /\ Made(h) /\ Sequential(h)
        /\ \E i, j \in CallsOn(h, {"execute"}) :
               /\ i < j /\ calls[i].stmt # calls[j].stmt
               /\ calls[i].stage = "done" /\ calls[j].stage = "done"

----------------------------------------------------------------------------
\* C2 as stated: per handle at most one COMMIT or ROLLBACK is ever sent to the
\* client in total, and once commit or rollback was called the handle is
\* Resolved and no later call on it exists.
C2_Original ==
    \A h \in Ids :
        /\ Cardinality({k \in 1..Len(log) :
               calls[log[k].call].h = h /\ IsResolvingText(log[k])}) <= 1
        /\ \A i \in CallsOn(h, Resolving) :
               /\ tx[h].state = "Resolved"
               /\ \A j \in CallsOn(h, AllOps) : j <= i

\* C2 amended: per handle at most one commit or rollback call is ever made, so
\* at most one COMMIT or ROLLBACK is sent by them (execute forwards whatever
\* text the caller gives it, COMMIT included); once commit or rollback was
\* called the handle is Resolved, no later call on it exists or can be made,
\* and nothing reaches the client for it after the resolving statement.
C2_ResolvedOnce ==
    \A h \in Ids :
        /\ Cardinality(CallsOn(h, Resolving)) <= 1
        /\ Len(HandleLog(h, Resolving)) <= 1
        /\ \A i \in CallsOn(h, Resolving) :
               /\ tx[h].state = "Resolved"
               /\ \A j \in CallsOn(h, AllOps) : j <= i
               /\ \A k \in EntriesOf(i) : \A m \in 1..Len(log) :
                      (calls[log[m].call].h = h) => m <= k
               /\ \A x \in Inputs : ~ENABLED ExecuteCall(h, x)
               /\ \A op \in Resolving : ~ENABLED ResolveCall(h, op)

\* A handle was committed, the COMMIT failed, and the caller could still make
\* another call.
C2_Witness ==
    \E h \in Ids : \E i \in CallsOn(h, {"commit"}) :
        /\ calls[i].stage = "done" /\ calls[i].ret.kind = "err"
        /\ Len(calls) < MaxCalls

----------------------------------------------------------------------------
\* C3: when the raw_batch([BEGIN]) of new fails, new returns that error, no
\* handle exists for it, now or later, and the BEGIN that failed is the only
\* client call new made: no retry, no ROLLBACK, no execute.
C3_FailedNew ==
    \A i \in Ids :
        (calls[i].op = "new" /\ calls[i].stage = "done"
                             /\ calls[i].ret.kind = "err") =>
            /\ tx[i].state = "none"
            /\ CallsOn(i, AllOps) = {i}
            /\ Cardinality(EntriesOf(i)) = 1
            /\ \A k \in EntriesOf(i) :
                   IsBegin(log[k]) /\ log[k].resp = calls[i].ret
            /\ Len(HandleLog(i, AllOps)) = 1
            /\ \A x \in Inputs : ~ENABLED ExecuteCall(i, x)

\* new failed and the run went on with other calls.
C3_Witness ==
    \E i \in Ids :
        /\ calls[i].op = "new" /\ calls[i].stage = "done"
        /\ calls[i].ret.kind = "err"
        /\ Len(calls) > i

----------------------------------------------------------------------------
\* An execute on h has failed.
FailedExecute(h) ==
    \E i \in CallsOn(h, {"execute"}) :
        calls[i].stage = "done" /\ calls[i].ret.kind = "err"

\* In this step the execute call i returns an error.
ExecuteFails(i) ==
    /\ calls[i].op = "execute" /\ calls[i].stage = "inflight"
    /\ calls'[i].stage = "done" /\ calls'[i].ret.kind = "err"

\* C4: when an execute on an Open handle fails, the handle stays Open and
\* nothing is sent to the client by that failure; afterwards rollback and
\* commit are both accepted, and what the client then receives from them is
\* exactly ROLLBACK for rollback and COMMIT for commit.
C4_FailedExecuteStaysOpen ==
    /\ [][\A i \in Ids : ExecuteFails(i) =>
              /\ tx[calls[i].h].state = "Open"
              /\ tx' = tx
              /\ Len(log') = Len(log)
              /\ \A k \in 1..Len(log) :
                     [log'[k] EXCEPT !.resp = NoValue]
                         = [log[k] EXCEPT !.resp = NoValue]]_vars
    /\ [](\A h \in Ids :
              /\ (FailedExecute(h) /\ tx[h].state = "Open" /\ ~Borrowed(h)
                                   /\ Len(calls) < MaxCalls) =>
                     \A op \in Resolving : ENABLED ResolveCall(h, op)
              /\ FailedExecute(h) =>
                     /\ \A i \in CallsOn(h, Resolving) : \A k \in EntriesOf(i) :
                            IsExecuteOf(log[k], IF calls[i].op = "rollback"
                                                THEN "ROLLBACK" ELSE "COMMIT")
                     /\ \A k \in 1..Len(log) :
                            calls[log[k].call].h = h =>
                                Cardinality(EntriesOf(log[k].call)) = 1)

\* An execute failed and the rollback that followed reached the client.
C4_Witness ==
    \E h \in Ids :
        /\ FailedExecute(h)
        /\ \E i \in CallsOn(h, {"rollback"}) : EntriesOf(i) # {}

----------------------------------------------------------------------------
\* A commit or rollback call that returned an error.
FailedResolve(i) ==
    /\ calls[i].op \in Resolving /\ calls[i].stage = "done"
    /\ calls[i].ret.kind = "err"

\* C5: when the client's execute of COMMIT or ROLLBACK fails, commit/rollback
\* returns the client's error and the handle is consumed all the same: it is
\* Resolved, no commit, rollback or execute can be made on it again, and a
\* retry goes through new(client), which is still available.
C5_FailedResolveConsumes ==
    \A i \in Ids :
        FailedResolve(i) =>
            LET h == calls[i].h
            IN  /\ \A k \in EntriesOf(i) : log[k].resp = calls[i].ret
                /\ EntriesOf(i) # {}
                /\ tx[h].state = "Resolved"
                /\ CallsOn(h, Resolving) = {i}
                /\ \A op \in Resolving : ~ENABLED ResolveCall(h, op)
                /\ \A x \in Inputs : ~ENABLED ExecuteCall(h, x)
                /\ (Len(calls) < MaxCalls
                      /\ Cardinality({j \in Ids : calls[j].op = "new"}) < MaxNew) =>
                       ENABLED NewCall(tx[h].client)

\* A commit failed and the caller started a new transaction on the same client.
C5_Witness ==
    \E i \in Ids :
        /\ FailedResolve(i) /\ calls[i].op = "commit"
        /\ \E j \in Ids :
               /\ j > i /\ calls[j].op = "new"
               /\ calls[j].client = tx[calls[i].h].client

----------------------------------------------------------------------------
\* A COMMIT or ROLLBACK client call made for handle h has completed.
ResolveCompleted(h) ==
    \E k \in 1..Len(log) :
        /\ calls[log[k].call].h = h /\ calls[log[k].call].op \in Resolving
        /\ log[k].resp # NoValue

CancelledResolve(i) == calls[i].op \in Resolving /\ calls[i].stage = "cancelled"

\* C6 as stated: after a commit or rollback call was cancelled, the handle is
\* not Resolved unless a COMMIT or ROLLBACK client call for it has completed.
C6_Original ==
    \A i \in Ids :
        CancelledResolve(i) =>
            (tx[calls[i].h].state = "Resolved" => ResolveCompleted(calls[i].h))

\* C6 amended: a commit or rollback call that is cancelled, in flight or
\* before its client call is issued, has consumed the handle all the same:
\* the handle is Resolved from the call on although no COMMIT or ROLLBACK
\* client call for it has completed, and no further call can be made on it.
C6_CancelledResolveConsumes ==
    \A i \in Ids :
        CancelledResolve(i) =>
            LET h == calls[i].h
            IN  /\ tx[h].state = "Resolved"
                /\ ~ResolveCompleted(h)
                /\ CallsOn(h, Resolving) = {i}
                /\ \A j \in CallsOn(h, AllOps) : j <= i
                /\ \A op \in Resolving : ~ENABLED ResolveCall(h, op)
                /\ \A x \in Inputs : ~ENABLED ExecuteCall(h, x)

\* A commit was cancelled while its COMMIT was in flight at the client.
C6_Witness ==
    \E i \in Ids :
        /\ CancelledResolve(i) /\ calls[i].op = "commit"
        /\ EntriesOf(i) # {}

----------------------------------------------------------------------------
OpenOn(c) == {h \in CallIds : tx[h].state = "Open" /\ tx[h].client = c}

\* C7 as stated: at most one handle per client is Open at any time.
C7_Original == \A c \in Clients : Cardinality(OpenOn(c)) <= 1

\* C7 amended: every client call made for a handle (its BEGIN, its statements,
\* its COMMIT or ROLLBACK) goes to the client instance that was given to new
\* for that handle.  Nothing keeps a second handle off that client: several
\* handles may be Open on one client at once, the discipline is the caller's.
C7_SameClient ==
    /\ \A k \in 1..Len(log) :
           log[k].client = calls[calls[log[k].call].h].client
    /\ \A h \in Ids : Made(h) => tx[h].client = calls[h].client

\* Two handles are Open on one client and a statement of one of the two has
\* reached that client.
C7_Witness ==
    \E c \in Clients :
        /\ Cardinality(OpenOn(c)) = 2
        /\ \E k \in 1..Len(log) :
               log[k].method = "execute" /\ calls[log[k].call].h \in OpenOn(c)

----------------------------------------------------------------------------
\* A commit on h has returned.
Committed(h) ==
    \E i \in CallsOn(h, {"commit"}) : calls[i].stage = "done"

\* Every execute made on h has returned.
Awaited(h) == \A i \in CallsOn(h, {"execute"}) : calls[i].stage = "done"

\* C8: a handle on which n execute calls were made and awaited, and which was
\* then committed, caused exactly n + 2 client calls; with n = 0 these are
\* raw_batch([BEGIN]) and then execute(COMMIT), and nothing else.
C8_CallCount ==
    \A h \in Ids :
        (Committed(h) /\ Awaited(h)) =>
            LET L == HandleLog(h, AllOps)
                n == Cardinality(CallsOn(h, {"execute"}))
            IN  /\ Len(L) = n + 2
                /\ IsBegin(L[1])
                /\ IsExecuteOf(L[n + 2], "COMMIT")
                /\ n = 0 => (L[1].call = h /\ calls[L[2].call].op = "commit")

\* A handle was committed after one execute.
C8_Witness ==
    \E h \in Ids :
        /\ Committed(h) /\ Awaited(h)
        /\ Cardinality(CallsOn(h, {"execute"})) = 1

----------------------------------------------------------------------------
\* C9: every operation that returned made exactly one client call, returned
\* an error exactly when that client call did, and then returned the client's
\* error value; no operation still running or dropped made more than one.
C9_OneCallErrorsPassed ==
    \A i \in Ids :
        /\ Cardinality(EntriesOf(i)) <= 1
        /\ calls[i].stage = "created" => EntriesOf(i) = {}
        /\ calls[i].stage = "inflight" => Cardinality(EntriesOf(i)) = 1
        /\ calls[i].stage = "done" =>
               /\ Cardinality(EntriesOf(i)) = 1
               /\ \A k \in EntriesOf(i) :
                      /\ calls[i].ret.kind = log[k].resp.kind
                      /\ log[k].resp.kind = "err" => calls[i].ret = log[k].resp

\* An execute and then a rollback have each returned the error of their
\* client call.
C9_Witness ==
    \E i, j \in Ids :
        /\ calls[i].op = "execute" /\ calls[i].stage = "done"
        /\ calls[i].ret.kind = "err"
        /\ calls[j].op = "rollback" /\ calls[j].stage = "done"
        /\ calls[j].ret.kind = "err"

----------------------------------------------------------------------------
\* The BEGIN batches the client acknowledged for handle h.
BeginsAcknowledged(h) ==
    {k \in 1..Len(log) :
        calls[log[k].call].h = h /\ IsBegin(log[k]) /\ log[k].resp.kind = "ok"}

\* C10 as stated: a handle is Open only if the client has acknowledged exactly
\* one BEGIN batch for it and has not yet been sent a COMMIT or ROLLBACK from
\* it.
C10_Original ==
    \A h \in CallIds :
        tx[h].state = "Open" =>
            /\ Cardinality(BeginsAcknowledged(h)) = 1
            /\ \A k \in 1..Len(log) :
                   calls[log[k].call].h = h => ~IsResolvingText(log[k])

\* C10 amended: a handle is Open only if the client has acknowledged exactly
\* one BEGIN batch for it and no commit or rollback has been called on it (a
\* COMMIT or ROLLBACK text the caller passes to execute is forwarded and leaves
\* the handle Open); a handle becomes Resolved only in a step that calls
\* commit or rollback on it, and a Resolved handle stays Resolved.
C10_OpenBetweenBeginAndResolve ==
    /\ [](\A h \in CallIds :
              tx[h].state = "Open" =>
                  /\ Cardinality(BeginsAcknowledged(h)) = 1
                  /\ CallsOn(h, Resolving) = {}
                  /\ HandleLog(h, Resolving) = <<>>)
    /\ [][\A h \in CallIds :
              /\ tx[h].state = "Resolved" => tx'[h].state = "Resolved"
              /\ (tx[h].state # "Resolved" /\ tx'[h].state = "Resolved") =>
                     /\ tx[h].state = "Open"
                     /\ Len(calls') = Len(calls) + 1
                     /\ calls'[Len(calls')].h = h
                     /\ calls'[Len(calls')].op \in Resolving]_vars

\* A handle is Open after the client answered a COMMIT text that went through
\* execute on it.
C10_Witness ==
    \E h \in Ids :
        /\ tx[h].state = "Open"
        /\ \E k \in 1..Len(log) :
               /\ calls[log[k].call].h = h /\ IsResolvingText(log[k])
               /\ log[k].resp.kind = "ok"

----------------------------------------------------------------------------
\* In this step the Open handle h is discarded.
Discarded(h) == tx[h].state = "Open" /\ tx'[h].state = "Dropped"

\* C11: discarding an Open handle without commit or rollback sends nothing to
\* the client: the step leaves what the clients received as it was, and for a
\* discarded handle the clients never received a COMMIT or ROLLBACK from a
\* resolving operation, nor anything but the one BEGIN from its construction.
C11_DropSendsNothing ==
    /\ [][\A h \in CallIds : Discarded(h) => (log' = log /\ calls' = calls)]_vars
    /\ [](\A h \in CallIds :
              tx[h].state = "Dropped" =>
                  /\ CallsOn(h, Resolving) = {}
                  /\ HandleLog(h, Resolving) = <<>>
                  /\ Len(HandleLog(h, {"new"})) = 1
                  /\ IsBegin(HandleLog(h, {"new"})[1]))

\* A handle was discarded after a statement of it had reached the client.
C11_Witness ==
    \E h \in Ids :
        /\ tx[h].state = "Dropped"
        /\ HandleLog(h, {"execute"}) # <<>>

----------------------------------------------------------------------------
----------------------------------------------------------------------------
\* In this step the execute call i sends its statement or returns.
ExecuteSteps(i) ==
    /\ calls[i].op = "execute"
    /\ calls'[i].stage # calls[i].stage
    /\ calls'[i].stage \in {"inflight", "done"}

\* C13: the statement the client receives for an execute is the statement
\* the caller passed, text and arguments unchanged; what execute returns is
\* the client's result for it, success or error; and execute leaves the
\* handle Open and as it was.
C13_ExecuteVerbatim ==
    /\ [](\A i \in Ids : calls[i].op = "execute" =>
              /\ \A k \in EntriesOf(i) :
                     /\ log[k].method = "execute"
                     /\ Len(log[k].stmts) = 1
                     /\ log[k].stmts[1].sql = calls[i].stmt.sql
                     /\ log[k].stmts[1].args = calls[i].stmt.args
                     /\ log[k].client = tx[calls[i].h].client
                     /\ calls[i].stage = "done" => calls[i].ret = log[k].resp
              /\ calls[i].stage = "done" =>
                     (EntriesOf(i) # {} /\ calls[i].ret # NoValue))
    /\ [][\A i \in Ids : ExecuteSteps(i) =>
              (tx[calls[i].h].state = "Open" /\ tx' = tx)]_vars

\* An insert with its argument was executed and returned the client's result
\* set.
C13_Witness ==
    \E i \in Ids :
        /\ calls[i].op = "execute" /\ calls[i].stage = "done"
        /\ calls[i].stmt.args # <<>>
        /\ calls[i].ret.kind = "ok"

----------------------------------------------------------------------------
\* Two execute calls on one handle, neither finished.
Concurrent(i, j) ==
    /\ i # j
    /\ calls[i].op = "execute" /\ calls[j].op = "execute"
    /\ calls[i].h = calls[j].h
    /\ Live(i) /\ Live(j)

\* C14: the handle does not synchronize: of two execute calls that are live
\* on one handle at the same time, each is forwarded to the client at most
\* once (exactly once when it has been polled), and neither waits for the
\* other: one that has not sent its statement can send it, one that has can
\* get its answer, whatever the other is doing.
C14_NoSynchronization ==
    \A i, j \in Ids :
        Concurrent(i, j) =>
            /\ calls[i].stage = "created" =>
                   (EntriesOf(i) = {} /\ ENABLED ExecutePoll(i))
            /\ calls[i].stage = "inflight" =>
                   /\ Cardinality(EntriesOf(i)) = 1
                   /\ \A k \in Outcomes : ENABLED ExecuteDone(i, Answer(k, i))

\* Two executes are in flight on one handle and the client received the one
\* issued later first.
C14_Witness ==
    \E i, j \in Ids :
        /\ Concurrent(i, j) /\ i < j
        /\ calls[i].stage = "inflight" /\ calls[j].stage = "inflight"
        /\ \E k \in EntriesOf(i), m \in EntriesOf(j) : m < k

----------------------------------------------------------------------------
\* C15: once commit or rollback has been called on a handle, no execute on it
\* is pending: every execute on it was issued before and has returned or been
\* dropped, so the COMMIT or ROLLBACK is never sent while one is pending, and
\* the statement of every execute that returned reached the client before the
\* COMMIT or ROLLBACK.
C15_ResolveAfterExecutes ==
    \A h \in Ids : \A i \in CallsOn(h, Resolving) :
        \A j \in CallsOn(h, {"execute"}) :
            /\ j < i
            /\ ~Live(j)
            /\ \A k \in EntriesOf(i) : \A m \in EntriesOf(j) : m < k
            /\ calls[j].stage = "done" => EntriesOf(j) # {}

\* An execute returned and the COMMIT that followed reached the client.
C15_Witness ==
    \E h \in Ids : \E i \in CallsOn(h, {"commit"}) :
        /\ EntriesOf(i) # {}
        /\ \E j \in CallsOn(h, {"execute"}) : calls[j].stage = "done"

----------------------------------------------------------------------------
NewCalls == {i \in Ids : calls[i].op = "new"}

\* In this step the call i of new returns a handle.
NewSucceeds(i) ==
    /\ calls[i].op = "new" /\ calls[i].stage = "inflight"
    /\ calls'[i].stage = "done" /\ calls'[i].ret.kind = "ok"

\* C16: the handle never closes or consumes the client: after a handle was
\* Resolved (by a commit or rollback, successful or not) or discarded, new can
\* be called on the same client again; every new that ran sent one
\* raw_batch([BEGIN]) to the client it was given, and when that succeeds the
\* result is a fresh Open handle on that client, the earlier handles staying
\* as they were.
C16_ClientReusable ==
    /\ [](\A h \in CallIds :
              (tx[h].state \in {"Resolved", "Dropped"}
                  /\ Len(calls) < MaxCalls
                  /\ Cardinality(NewCalls) < MaxNew) =>
                     ENABLED NewCall(tx[h].client))
    /\ [](\A i \in NewCalls :
              calls[i].stage \in {"inflight", "done"} =>
                  /\ Cardinality(EntriesOf(i)) = 1
                  /\ \A k \in EntriesOf(i) :
                         IsBegin(log[k]) /\ log[k].client = calls[i].client)
    /\ [][\A i \in Ids : NewSucceeds(i) =>
              /\ tx[i].state = "none"
              /\ tx'[i] = [state |-> "Open", client |-> calls[i].client]
              /\ \A h \in CallIds \ {i} : tx'[h] = tx[h]]_vars

\* A handle is Open on a client on which an earlier handle was Resolved by a
\* commit that failed.
C16_Witness ==
    \E h, g \in Ids :
        /\ h < g
        /\ tx[h].state = "Resolved" /\ tx[g].state = "Open"
        /\ tx[h].client = tx[g].client
        /\ \E i \in CallsOn(h, {"commit"}) :
               calls[i].stage = "done" /\ calls[i].ret.kind = "err" /\ i < g

====
